---- MODULE Spec2Model ----
(***************************************************************************)
(* Model of the Companies House officer reconciler                         *)
(* (initialise: apiKeysRotated, request, locate, paginate, parse, run).    *)
(*                                                                         *)
(* JavaScript values are tagged records: Undefined, Null, Str(<<chars>>),  *)
(* Num(n), Arr(<<...>>).  A string is a sequence of one-character strings, *)
(* so that toLowerCase, replace, slice, split and padStart are computed    *)
(* character by character as the code computes them.  A template string    *)
(* is the sequence of its parts.                                           *)
(***************************************************************************)
EXTENDS Integers, Sequences, FiniteSets, Bags, TLC

VARIABLES parameters, entries, remote, answers, next, handed, alerts,
          pc, sent, queries, inflight, queue,
          dataLocatedRequested, pageResponses, dataLocatedPaginated,
          dataParsed, failure, received, overtaken, steps

vars == <<parameters, entries, remote, answers, next, handed, alerts,
          pc, sent, queries, inflight, queue,
          dataLocatedRequested, pageResponses, dataLocatedPaginated,
          dataParsed, failure, received, overtaken, steps>>

----------------------------------------------------------------------------
(* Bounds of the model *)

MaxKeys == 3

MaxItems == 2

MaxOfficers == 2

----------------------------------------------------------------------------
(* JavaScript values *)

Undefined == [t |-> "undefined"]

Null == [t |-> "null"]

Str(s) == [t |-> "string", v |-> s]

Num(n) == [t |-> "number", v |-> n]

Lit(s) == [t |-> "literal", v |-> s]

Arr(s) == [t |-> "array", v |-> s]

Truthy(x) ==
    CASE x.t = "undefined" -> FALSE
      [] x.t = "null" -> FALSE
      [] x.t = "string" -> x.v # <<>>
      [] x.t = "number" -> x.v # 0
      [] OTHER -> TRUE

Digit == <<"0", "1", "2", "3", "4", "5", "6", "7", "8", "9">>

RECURSIVE toString(_)
toString(n) ==
    IF n < 10 THEN <<Digit[n + 1]>>
    ELSE toString(n \div 10) \o <<Digit[(n % 10) + 1]>>

RECURSIVE padStart(_, _, _)
padStart(s, width, fill) ==
    IF Len(s) >= width THEN s ELSE padStart(<<fill>> \o s, width, fill)

slice(s, from, to) ==
    LET f == IF from > Len(s) THEN Len(s) ELSE from
        u == IF to > Len(s) THEN Len(s) ELSE to
    IN  IF u <= f THEN <<>> ELSE SubSeq(s, f + 1, u)

Whitespace == {" "}

RECURSIVE trimStart(_)
trimStart(s) ==
    IF s # <<>> /\ Head(s) \in Whitespace THEN trimStart(Tail(s)) ELSE s

RECURSIVE trimEnd(_)
trimEnd(s) ==
    IF s # <<>> /\ s[Len(s)] \in Whitespace
    THEN trimEnd(SubSeq(s, 1, Len(s) - 1)) ELSE s

trim(s) == trimEnd(trimStart(s))

RECURSIVE splitFrom(_, _, _)
splitFrom(s, sep, current) ==
    IF s = <<>> THEN <<current>>
    ELSE IF Head(s) = sep THEN <<current>> \o splitFrom(Tail(s), sep, <<>>)
    ELSE splitFrom(Tail(s), sep, Append(current, Head(s)))

split(s, sep) == splitFrom(s, sep, <<>>)

RECURSIVE join(_, _)
join(parts, sep) ==
    IF parts = <<>> THEN <<>>
    ELSE IF Len(parts) = 1 THEN parts[1]
    ELSE parts[1] \o <<sep>> \o join(Tail(parts), sep)

LowerCaseOf ==
    ("A" :> "a") @@ ("B" :> "b") @@ ("C" :> "c") @@ ("D" :> "d") @@
    ("E" :> "e") @@ ("F" :> "f") @@ ("G" :> "g") @@ ("H" :> "h") @@
    ("I" :> "i") @@ ("J" :> "j") @@ ("K" :> "k") @@ ("L" :> "l") @@
    ("M" :> "m") @@ ("N" :> "n") @@ ("O" :> "o") @@ ("P" :> "p") @@
    ("Q" :> "q") @@ ("R" :> "r") @@ ("S" :> "s") @@ ("T" :> "t") @@
    ("U" :> "u") @@ ("V" :> "v") @@ ("W" :> "w") @@ ("X" :> "x") @@
    ("Y" :> "y") @@ ("Z" :> "z")

LowerLetters ==
    {"a", "b", "c", "d", "e", "f", "g", "h", "i", "j", "k", "l", "m",
     "n", "o", "p", "q", "r", "s", "t", "u", "v", "w", "x", "y", "z"}

toLowerCase(s) ==
    [i \in 1..Len(s) |->
        IF s[i] \in DOMAIN LowerCaseOf THEN LowerCaseOf[s[i]] ELSE s[i]]

StartsWith(s, prefix) ==
    Len(s) >= Len(prefix) /\ SubSeq(s, 1, Len(prefix)) = prefix

----------------------------------------------------------------------------
(* Configuration and input *)

AllKeys == <<"A", "B", "C", "D", "E">>

IndividualNameColumn == "individualName"

DateOfBirthColumn == "dateOfBirth"

JohnSmith == <<"J", "o", "h", "n", " ", "S", "m", "i", "t", "h">>

FirstLine == 3

Lines == {FirstLine, FirstLine + 1}

\* entry.data[field]: undefined when the column is missing or not configured
Field(entry, field) ==
    IF field.t = "literal" /\ field.v \in DOMAIN entry.data
    THEN Str(entry.data[field.v]) ELSE Undefined

----------------------------------------------------------------------------
(* Credential rotator *)

apiKeys == parameters.apiKey

\* the key apiKeysRotated returns in a state
apiKeysRotatedKey == apiKeys[next + 1]

\* a rotator that never wraps: the cursor sticks on the last key
apiKeysRotatedNextStuck(cursor) ==
    IF cursor + 1 >= Len(apiKeys) THEN cursor ELSE cursor + 1

\* the cursor after one call of apiKeysRotated
apiKeysRotatedNext(cursor) == (cursor + 1) % Len(apiKeys)

----------------------------------------------------------------------------
(* Request executor: configuration passed to requestor *)

\* a ceiling of three requests per key
limitTriple == Len(apiKeys) * 3

limit == Len(apiKeys) * 2

\* messages testing the generic >= 400 case before the fatal ones
messagesGenericFirst(e) ==
    IF e.response.status >= 400
    THEN [kind |-> "return",
          message |-> <<Lit("Received code "), Num(e.response.status),
                        Lit(" for individual "),
                        e.config.passthrough.individualName,
                        Lit(" on page "), Num(e.config.passthrough.page)>>]
    ELSE [kind |-> "none", message |-> <<>>]

\* messages throwing for every status >= 400
messagesGenericThrows(e) ==
    IF e.response.status = 429
    THEN [kind |-> "throw",
          message |-> <<Lit("The rate limit has been reached")>>]
    ELSE IF e.response.status = 401
    THEN [kind |-> "throw",
          message |-> <<Lit("API key "), Lit(e.config.auth.username),
                        Lit(" is invalid")>>]
    ELSE IF e.response.status >= 400
    THEN [kind |-> "throw",
          message |-> <<Lit("Received code "), Num(e.response.status),
                        Lit(" for individual "),
                        e.config.passthrough.individualName,
                        Lit(" on page "), Num(e.config.passthrough.page)>>]
    ELSE [kind |-> "none", message |-> <<>>]

\* a classifier that always names the first configured key
messagesFirstKey(e) ==
    IF e.response.status = 429
    THEN [kind |-> "throw",
          message |-> <<Lit("The rate limit has been reached")>>]
    ELSE IF e.response.status = 401
    THEN [kind |-> "throw",
          message |-> <<Lit("API key "), Lit(apiKeys[1]), Lit(" is invalid")>>]
    ELSE IF e.response.status >= 400
    THEN [kind |-> "return",
          message |-> <<Lit("Received code "), Num(e.response.status),
                        Lit(" for individual "),
                        e.config.passthrough.individualName,
                        Lit(" on page "), Num(e.config.passthrough.page)>>]
    ELSE [kind |-> "none", message |-> <<>>]

messages(e) ==
    LET individual == e.config.passthrough.individualName
        page == e.config.passthrough.page
    IN  IF e.response.status = 429
        THEN [kind |-> "throw",
              message |-> <<Lit("The rate limit has been reached")>>]
        ELSE IF e.response.status = 401
        THEN [kind |-> "throw",
              message |-> <<Lit("API key "), Lit(e.config.auth.username),
                            Lit(" is invalid")>>]
        ELSE IF e.response.status >= 400
        THEN [kind |-> "return",
              message |-> <<Lit("Received code "), Num(e.response.status),
                            Lit(" for individual "), individual,
                            Lit(" on page "), Num(page)>>]
        ELSE [kind |-> "none", message |-> <<>>]

----------------------------------------------------------------------------
(* locate *)

\* the Query locate builds from an individual name and a rotated key
locateQuery(individualName, key) ==
    [url |-> Lit("https://api.company-information.service.gov.uk/search/officers"),
     auth |-> [username |-> key, password |-> Lit("")],
     params |-> [q |-> Str(trim(individualName.v)), items_per_page |-> 100],
     passthrough |-> [individualName |-> individualName, page |-> 1]]

\* locate returning undefined for a missing name without alerting
locateSilent(entry) ==
    LET individualName == Field(entry, parameters.individualNameField)
    IN  IF ~Truthy(individualName)
        THEN [query |-> Undefined, alerts |-> EmptyBag, rotated |-> FALSE]
        ELSE [query |-> locateQuery(individualName, apiKeysRotatedKey),
              alerts |-> EmptyBag,
              rotated |-> TRUE]

\* a locate that builds a Query whatever the name
locateUnguarded(entry) ==
    LET individualName == Field(entry, parameters.individualNameField)
    IN  IF ~Truthy(individualName)
        THEN [query |-> locateQuery(Str(<<>>), apiKeysRotatedKey),
              alerts |-> SetToBag({[message |-> <<Lit("No individual name found on line "),
                                                  Num(entry.line)>>,
                                    importance |-> "error"]}),
              rotated |-> TRUE]
        ELSE [query |-> locateQuery(individualName, apiKeysRotatedKey),
              alerts |-> EmptyBag,
              rotated |-> TRUE]

\* locate(entry): the Query or undefined, the alerts raised, and whether
\* apiKeysRotated was called
locate(entry) ==
    LET individualName == Field(entry, parameters.individualNameField)
    IN  IF ~Truthy(individualName)
        THEN [query |-> Undefined,
              alerts |-> SetToBag({[message |-> <<Lit("No individual name found on line "),
                                                  Num(entry.line)>>,
                                    importance |-> "error"]}),
              rotated |-> FALSE]
        ELSE [query |-> locateQuery(individualName, apiKeysRotatedKey),
              alerts |-> EmptyBag,
              rotated |-> TRUE]

----------------------------------------------------------------------------
(* paginate *)

PageSize == 100

PageCap == 10

CeilDiv(a, b) == (a + b - 1) \div b

\* pageNumbers without the cap: .slice(1)
pageNumbersUncapped(response) ==
    LET pageTotal == CeilDiv(response.data.total_results, PageSize)
        keys == [i \in 1..pageTotal |-> i - 1]
    IN  slice(keys, 1, pageTotal)

\* Array.from(Array(pageTotal).keys()).slice(1, 10)
pageNumbers(response) ==
    LET pageTotal == CeilDiv(response.data.total_results, PageSize)
        keys == [i \in 1..pageTotal |-> i - 1]
    IN  slice(keys, 1, PageCap)

\* the Query paginate builds for one element of pageNumbers
pageQuery(response, page, key) ==
    [url |-> response.url,
     auth |-> [username |-> key, password |-> Lit("")],
     params |-> [q |-> Str(trim(response.passthrough.individualName.v)),
                 items_per_page |-> 100,
                 start_index |-> page * 100],
     passthrough |-> [individualName |-> response.passthrough.individualName,
                      page |-> page + 1]]

\* the keys apiKeysRotated returns on n successive calls from cursor c
RECURSIVE rotatedKeys(_, _)
rotatedKeys(c, n) ==
    IF n = 0 THEN <<>>
    ELSE <<apiKeys[c + 1]>> \o rotatedKeys(apiKeysRotatedNext(c), n - 1)

RECURSIVE rotatedCursor(_, _)
\* a fan-out that advances the cursor once more than it builds Queries
rotatedCursorExtra(c, n) ==
    IF n = 0 THEN c ELSE (c + n + 1) % Len(apiKeys)

\* a fan-out whose callers all read the cursor before any of them writes it
rotatedCursorOnce(c, n) ==
    IF n = 0 THEN c ELSE (c + 1) % Len(apiKeys)

rotatedCursor(c, n) ==
    IF n = 0 THEN c ELSE rotatedCursor(apiKeysRotatedNext(c), n - 1)

\* pageNumbers.map(page => query): one Query per page, keys taken in order
pageQueries(response) ==
    LET pages == pageNumbers(response)
        keys == rotatedKeys(next, Len(pages))
    IN  [i \in 1..Len(pages) |-> pageQuery(response, pages[i], keys[i])]

\* true when paginate takes the fan-out branch
fansOut(response) == response.data.total_results > 100

Pending == [t |-> "pending"]

\* fulfilment values collected in order of arrival
fulfilAtArrival(responses, index, value) ==
    LET open == {i \in 1..Len(responses) : responses[i] = Pending}
    IN  [responses EXCEPT ![CHOOSE i \in open : \A j \in open : i <= j] = value]

\* Promise.all stores a fulfilment value at the index of its promise
fulfilAt(responses, index, value) == [responses EXCEPT ![index] = value]

\* [response].concat(pageResponses)
concatPages(response, responses) == <<response>> \o responses

----------------------------------------------------------------------------
(* parse *)

columns == <<"officerID", "officerName", "officerDateOfBirth", "officerAddress">>

BirthPart(individual, part) ==
    IF individual.date_of_birth.t = "object"
    THEN individual.date_of_birth[part] ELSE Undefined

\* a date-of-birth filter passing candidates without year or month
byDateOfBirthLenient(individual, entry) ==
    LET value == Field(entry, parameters.dateOfBirthField)
    IN  IF ~Truthy(parameters.dateOfBirthField) \/ ~Truthy(value) THEN TRUE
        ELSE IF ~Truthy(BirthPart(individual, "year"))
                \/ ~Truthy(BirthPart(individual, "month")) THEN TRUE
        ELSE /\ toString(BirthPart(individual, "year").v) = slice(value.v, 0, 4)
             /\ padStart(toString(BirthPart(individual, "month").v), 2, "0")
                    = slice(value.v, 5, 7)

\* a date-of-birth filter reading the month right after the year
byDateOfBirthNextTwo(individual, entry) ==
    LET value == Field(entry, parameters.dateOfBirthField)
    IN  IF ~Truthy(parameters.dateOfBirthField) \/ ~Truthy(value) THEN TRUE
        ELSE IF ~Truthy(BirthPart(individual, "year"))
                \/ ~Truthy(BirthPart(individual, "month")) THEN FALSE
        ELSE /\ toString(BirthPart(individual, "year").v) = slice(value.v, 0, 4)
             /\ padStart(toString(BirthPart(individual, "month").v), 2, "0")
                    = slice(value.v, 4, 6)

byDateOfBirth(individual, entry) ==
    LET value == Field(entry, parameters.dateOfBirthField)
    IN  IF ~Truthy(parameters.dateOfBirthField) \/ ~Truthy(value) THEN TRUE
        ELSE IF ~Truthy(BirthPart(individual, "year"))
                \/ ~Truthy(BirthPart(individual, "month")) THEN FALSE
        ELSE /\ toString(BirthPart(individual, "year").v) = slice(value.v, 0, 4)
             /\ padStart(toString(BirthPart(individual, "month").v), 2, "0")
                    = slice(value.v, 5, 7)

Honorifics ==
    << <<"m", "r">>, <<"m", "s">>, <<"m", "r", "s">>, <<"m", "i", "s", "s">>,
       <<"d", "r">>, <<"s", "i", "r">> >>

\* length of the match of /^(mr|ms|mrs|miss|dr|sir)\.? / at the start of s
honorificMatch(s) ==
    LET matchOf(h) ==
            IF StartsWith(s, h \o <<".", " ">>) THEN Len(h) + 2
            ELSE IF StartsWith(s, h \o <<" ">>) THEN Len(h) + 1
            ELSE 0
        hits == {i \in 1..Len(Honorifics) : matchOf(Honorifics[i]) > 0}
    IN  IF hits = {} THEN 0
        ELSE matchOf(Honorifics[CHOOSE i \in hits : \A j \in hits : i <= j])

\* .replace(/[^a-z ]/g, '')
keepLetters(s) == SelectSeq(s, LAMBDA c : c \in LowerLetters \cup {" "})

\* .replace(/^(mr|ms|mrs|miss|dr|sir)\.? /, '')
dropHonorific(s) == SubSeq(s, honorificMatch(s) + 1, Len(s))

\* normalisation without toLowerCase
normalisedCaseSensitive(name) ==
    IF name.t # "string" THEN Undefined
    ELSE Str(dropHonorific(keepLetters(name.v)))

normalised(name) ==
    IF name.t # "string" THEN Undefined
    ELSE Str(dropHonorific(keepLetters(toLowerCase(name.v))))

byPreciseMatch(individual, entry) ==
    IF ~parameters.preciseMatch THEN TRUE
    ELSE normalised(individual.title)
            = normalised(Field(entry, parameters.individualNameField))

\* .split on undefined: byNonMiddleNameMatch throws a TypeError
nonMiddleNameThrows(individual, entry) ==
    /\ parameters.nonMiddleNameMatch
    /\ \/ normalised(Field(entry, parameters.individualNameField)).t # "string"
       \/ normalised(individual.title).t # "string"

\* a first/last-name filter comparing the last token only
byNonMiddleNameMatchLastOnly(individual, entry) ==
    IF ~parameters.nonMiddleNameMatch THEN TRUE
    ELSE LET entryIndividualName ==
                 split(normalised(Field(entry, parameters.individualNameField)).v, " ")
             resultIndividualName == split(normalised(individual.title).v, " ")
         IN  resultIndividualName[Len(resultIndividualName)]
                = entryIndividualName[Len(entryIndividualName)]

byNonMiddleNameMatch(individual, entry) ==
    IF ~parameters.nonMiddleNameMatch THEN TRUE
    ELSE LET entryIndividualName ==
                 split(normalised(Field(entry, parameters.individualNameField)).v, " ")
             resultIndividualName == split(normalised(individual.title).v, " ")
         IN  /\ resultIndividualName[1] = entryIndividualName[1]
             /\ resultIndividualName[Len(resultIndividualName)]
                    = entryIndividualName[Len(entryIndividualName)]

officerID(individual) ==
    LET parts == split(individual.links.self.v, "/")
    IN  IF Len(parts) >= 3 THEN Str(parts[3]) ELSE Undefined

\* a birth date whose components are padded to two digits
officerDateOfBirthPadded(individual) ==
    LET all == <<BirthPart(individual, "year"), BirthPart(individual, "month"),
                 BirthPart(individual, "day")>>
        present == SelectSeq(all, Truthy)
        joined == join([i \in 1..Len(present) |->
                           padStart(toString(present[i].v), 2, "0")], "-")
    IN  IF joined = <<>> THEN Null ELSE Str(joined)

officerDateOfBirth(individual) ==
    LET all == <<BirthPart(individual, "year"), BirthPart(individual, "month"),
                 BirthPart(individual, "day")>>
        present == SelectSeq(all, Truthy)
        joined == join([i \in 1..Len(present) |-> toString(present[i].v)], "-")
    IN  IF joined = <<>> THEN Null ELSE Str(joined)

fields(individual) ==
    [officerID |-> officerID(individual),
     officerName |-> individual.title,
     officerDateOfBirth |-> officerDateOfBirth(individual),
     officerAddress |-> individual.address_snippet]

\* parse(response, entry): undefined, the rows, or a TypeError
parse(response, entry) ==
    IF ~Truthy(response) THEN [threw |-> FALSE, value |-> Undefined]
    ELSE
      LET individuals == response.data.items
          dated == SelectSeq(individuals, LAMBDA i : byDateOfBirth(i, entry))
          precise == SelectSeq(dated, LAMBDA i : byPreciseMatch(i, entry))
      IN  IF \E k \in 1..Len(precise) : nonMiddleNameThrows(precise[k], entry)
          THEN [threw |-> TRUE, value |-> <<Lit("TypeError")>>]
          ELSE LET kept == SelectSeq(precise,
                                     LAMBDA i : byNonMiddleNameMatch(i, entry))
               IN  [threw |-> FALSE,
                    value |-> Arr([k \in 1..Len(kept) |-> fields(kept[k])])]

\* dataLocatedPaginated.flatMap(response => parse(response, input)):
\* an array is spliced in, any other value becomes one element
RECURSIVE flatMapParse(_, _)
flatMapParse(responses, entry) ==
    IF responses = <<>> THEN [threw |-> FALSE, value |-> <<>>]
    ELSE LET head == parse(Head(responses), entry)
             rest == flatMapParse(Tail(responses), entry)
         IN  IF head.threw THEN head
             ELSE IF rest.threw THEN rest
             ELSE [threw |-> FALSE,
                   value |-> (IF head.value.t = "array" THEN head.value.v
                              ELSE <<head.value>>) \o rest.value]

----------------------------------------------------------------------------
(* Remote service stub and request executor *)

Statuses == {200, 401, 404, 429}

PageStatuses == {200, 404}

SmallTotals == {1, 250}

TotalResults == {0, 100, 101, 250, 950, 1250}

OfficersPath == <<"/", "o", "f", "f", "i", "c", "e", "r", "s", "/">>

Road == <<"1", " ", "R", "o", "a", "d">>

\* the body the stub answers: the total of the subject and one officer per page
remoteData(line, query) ==
    [total_results |-> remote[line],
     items |-> IF remote[line] = 0 THEN <<>>
               ELSE <<[title |-> query.passthrough.individualName,
                       links |-> [self |-> Str(OfficersPath \o <<"p">>
                                     \o toString(query.passthrough.page))],
                       date_of_birth |-> Undefined,
                       address_snippet |-> Str(Road)]>>]

\* the Response the executor resolves with: decoded body plus the Query's
\* url, auth and passthrough
responseOf(query, status, data) ==
    [t |-> "object", status |-> status, data |-> data, url |-> query.url,
     auth |-> query.auth, passthrough |-> query.passthrough]

\* outcome of one call of request once the remote service has answered
outcome(line, query, status) ==
    LET m == messages([response |-> [status |-> status], config |-> query])
    IN  IF m.kind = "throw"
        THEN [state |-> "rejected", error |-> m.message,
              value |-> Undefined, alerts |-> EmptyBag]
        ELSE IF m.kind = "return"
        THEN [state |-> "fulfilled", error |-> <<>>, value |-> Undefined,
              alerts |-> SetToBag({[message |-> m.message, importance |-> "error"]})]
        ELSE [state |-> "fulfilled", error |-> <<>>,
              value |-> responseOf(query, status, remoteData(line, query)),
              alerts |-> EmptyBag]

Min(a, b) == IF a < b THEN a ELSE b

\* executor slots after the calls request(q) for the ids, in order
admit(ids, flying, waiting) ==
    LET free == limit - Cardinality(flying)
        k == IF waiting # <<>> \/ free < 0 THEN 0 ELSE Min(free, Len(ids))
    IN  [inflight |-> flying \cup {ids[i] : i \in 1..k},
         queue |-> waiting \o SubSeq(ids, k + 1, Len(ids))]

InQueue(id) == \E i \in 1..Len(queue) : queue[i] = id

\* executor slots after the call id has completed
release(id) ==
    IF queue = <<>> THEN [inflight |-> inflight \ {id}, queue |-> queue]
    ELSE [inflight |-> (inflight \ {id}) \cup {Head(queue)},
          queue |-> Tail(queue)]

----------------------------------------------------------------------------
(* run *)

\* run's promise settles with the result of the flatMap over the pages
\* the rest of run(input) once paginate has the Responses: flatMap over parse
finish(line, pages) ==
    LET parsed == flatMapParse(pages, entries[line])
    IN  /\ dataLocatedPaginated' = [dataLocatedPaginated EXCEPT ![line] = Arr(pages)]
        /\ steps' = [steps EXCEPT ![line] =
               IF \E i \in DOMAIN steps[line] : steps[line][i] = "paginate"
               THEN Append(@, "parse")
               ELSE @ \o <<"paginate", "parse">>]
        /\ IF parsed.threw
           THEN /\ pc' = [pc EXCEPT ![line] = "Failed"]
                /\ failure' = [failure EXCEPT ![line] = parsed.value]
                /\ UNCHANGED dataParsed
           ELSE /\ pc' = [pc EXCEPT ![line] = "Done"]
                /\ dataParsed' = [dataParsed EXCEPT ![line] = Arr(parsed.value)]
                /\ UNCHANGED failure

\* run(input) up to its first await: locate, then request
Run(line) ==
    /\ pc[line] = "Start"
    /\ LET located == locate(entries[line])
       IN  /\ alerts' = alerts (+) located.alerts
           /\ sent' = [sent EXCEPT ![line] =
                          Append(@, IF located.rotated THEN Num(1) ELSE Undefined)]
           /\ IF located.rotated
              THEN /\ next' = apiKeysRotatedNext(next)
                   /\ handed' = Append(handed, apiKeysRotatedKey)
                   /\ queries' = (<<line, 1>> :> located.query) @@ queries
                   /\ LET slots == admit(<<<<line, 1>>>>, inflight, queue)
                      IN  inflight' = slots.inflight /\ queue' = slots.queue
                   /\ pc' = [pc EXCEPT ![line] = "Requested"]
                   /\ steps' = [steps EXCEPT ![line] = @ \o <<"locate", "request">>]
              ELSE \* request(undefined) and paginate(undefined) give undefined
                   /\ pc' = [pc EXCEPT ![line] = "Done"]
                   /\ steps' = [steps EXCEPT ![line] =
                          @ \o <<"locate", "request", "paginate">>]
                   /\ UNCHANGED <<next, handed, queries, inflight, queue>>
    /\ UNCHANGED <<parameters, entries, remote, answers, dataLocatedRequested,
                   pageResponses, dataLocatedPaginated, dataParsed, failure,
                   received, overtaken>>

\* the primary request is answered: request settles, run goes on to paginate
RespondPrimary(line, status) ==
    /\ <<line, 1>> \in inflight
    /\ LET query == queries[<<line, 1>>]
           result == outcome(line, query, status)
           response == result.value
           freed == release(<<line, 1>>)
       IN  /\ alerts' = alerts (+) result.alerts
           /\ received' = [received EXCEPT ![line] = @ \cup {<<1, status>>}]
           /\ IF result.state = "rejected"
              THEN /\ pc' = [pc EXCEPT ![line] = "Failed"]
                   /\ failure' = [failure EXCEPT ![line] = result.error]
                   /\ inflight' = freed.inflight /\ queue' = freed.queue
                   /\ UNCHANGED <<next, handed, sent, queries, dataParsed,
                                  dataLocatedRequested, pageResponses,
                                  dataLocatedPaginated, steps>>
              ELSE IF ~Truthy(response)
              THEN \* paginate(undefined) is undefined and run returns
                   /\ pc' = [pc EXCEPT ![line] = "Done"]
                   /\ steps' = [steps EXCEPT ![line] = Append(@, "paginate")]
                   /\ inflight' = freed.inflight /\ queue' = freed.queue
                   /\ UNCHANGED <<next, handed, sent, queries, dataParsed,
                                  failure, dataLocatedRequested, pageResponses,
                                  dataLocatedPaginated>>
              ELSE IF ~fansOut(response)
              THEN /\ finish(line, <<response>>)
                   /\ dataLocatedRequested' =
                          [dataLocatedRequested EXCEPT ![line] = response]
                   /\ inflight' = freed.inflight /\ queue' = freed.queue
                   /\ UNCHANGED <<next, handed, sent, queries, pageResponses>>
              ELSE LET pageRequests == pageQueries(response)
                       ids == [i \in 1..Len(pageRequests) |->
                                 <<line, pageRequests[i].passthrough.page>>]
                       slots == admit(ids, freed.inflight, freed.queue)
                   IN  /\ next' = rotatedCursor(next, Len(pageRequests))
                       /\ handed' = handed \o rotatedKeys(next, Len(pageRequests))
                       /\ sent' = [sent EXCEPT ![line] = @ \o
                              [i \in 1..Len(pageRequests) |->
                                 Num(pageRequests[i].passthrough.page)]]
                       /\ queries' = [id \in {ids[i] : i \in 1..Len(ids)} |->
                              pageRequests[CHOOSE i \in 1..Len(ids) : ids[i] = id]]
                              @@ queries
                       /\ inflight' = slots.inflight /\ queue' = slots.queue
                       /\ dataLocatedRequested' =
                              [dataLocatedRequested EXCEPT ![line] = response]
                       /\ pageResponses' = [pageResponses EXCEPT ![line] =
                              [i \in 1..Len(pageRequests) |-> Pending]]
                       /\ pc' = [pc EXCEPT ![line] = "Paginating"]
                       /\ steps' = [steps EXCEPT ![line] = Append(@, "paginate")]
                       /\ UNCHANGED <<dataParsed, failure, dataLocatedPaginated>>
    /\ UNCHANGED <<parameters, entries, remote, answers, overtaken>>

\* a follow-up page request is answered: it settles its slot of Promise.all
RespondPage(line, page, status) ==
    /\ page > 1
    /\ <<line, page>> \in inflight
    /\ LET query == queries[<<line, page>>]
           result == outcome(line, query, status)
           freed == release(<<line, page>>)
           responses == fulfilAt(pageResponses[line], page - 1, result.value)
       IN  /\ alerts' = alerts (+) result.alerts
           /\ received' = [received EXCEPT ![line] = @ \cup {<<page, status>>}]
           /\ overtaken' = [overtaken EXCEPT ![line] =
                  @ \/ \E lower \in 2..(page - 1) :
                         <<line, lower>> \in inflight \/ InQueue(<<line, lower>>)]
           /\ inflight' = freed.inflight /\ queue' = freed.queue
           /\ IF pc[line] = "Failed"
              THEN \* Promise.all has already rejected
                   UNCHANGED <<pc, failure, dataParsed, pageResponses,
                               dataLocatedPaginated, steps>>
              ELSE IF result.state = "rejected"
              THEN /\ pc' = [pc EXCEPT ![line] = "Failed"]
                   /\ failure' = [failure EXCEPT ![line] = result.error]
                   /\ UNCHANGED <<dataParsed, pageResponses, dataLocatedPaginated,
                                  steps>>
              ELSE /\ pageResponses' = [pageResponses EXCEPT ![line] = responses]
                   /\ IF \E i \in 1..Len(responses) : responses[i] = Pending
                      THEN UNCHANGED <<pc, failure, dataParsed, dataLocatedPaginated,
                                       steps>>
                      ELSE finish(line, concatPages(dataLocatedRequested[line],
                                                    responses))
    /\ UNCHANGED <<parameters, entries, remote, answers, next, handed, sent, queries,
                   dataLocatedRequested>>

----------------------------------------------------------------------------
(* Specification of the pipeline: a batch of entries run in parallel *)

NoFilters(keys) ==
    [apiKey |-> keys,
     individualNameField |-> Lit(IndividualNameColumn),
     dateOfBirthField |-> Undefined,
     preciseMatch |-> FALSE,
     nonMiddleNameMatch |-> FALSE]

EntryData ==
    {(IndividualNameColumn :> JohnSmith),
     (IndividualNameColumn :> <<>>),
     (DateOfBirthColumn :> <<>>)}

Idle(lines) ==
    /\ next = 0
    /\ handed = <<>>
    /\ alerts = EmptyBag
    /\ pc = [l \in lines |-> "Start"]
    /\ sent = [l \in lines |-> <<>>]
    /\ queries = <<>>
    /\ inflight = {}
    /\ queue = <<>>
    /\ dataLocatedRequested = [l \in lines |-> Undefined]
    /\ pageResponses = [l \in lines |-> <<>>]
    /\ dataLocatedPaginated = [l \in lines |-> Undefined]
    /\ dataParsed = [l \in lines |-> Undefined]
    /\ failure = [l \in lines |-> <<>>]
    /\ received = [l \in lines |-> {}]
    /\ overtaken = [l \in lines |-> FALSE]
    /\ steps = [l \in lines |-> <<>>]

Init ==
    /\ parameters \in {NoFilters(SubSeq(AllKeys, 1, n)) : n \in 1..MaxKeys}
    /\ entries \in {[l \in Lines |-> [line |-> l, data |-> d[l]]] :
                      d \in [Lines -> EntryData]}
    /\ remote \in [Lines -> SmallTotals]
    /\ answers = Statuses
    /\ Idle(Lines)

Next ==
    \/ \E line \in DOMAIN entries : Run(line)
    \/ \E line \in DOMAIN entries, status \in answers :
          RespondPrimary(line, status)
    \/ \E line \in DOMAIN entries, page \in 2..PageCap, status \in answers :
          RespondPage(line, page, status)

Spec == Init /\ [][Next]_vars

----------------------------------------------------------------------------
(* Specification of one entry with up to the full pagination fan-out *)

InitPaginate ==
    /\ parameters \in {NoFilters(SubSeq(AllKeys, 1, n)) : n \in 1..MaxKeys}
    /\ entries \in {[l \in {FirstLine} |-> [line |-> l, data |-> d]] :
                      d \in EntryData}
    /\ remote \in [{FirstLine} -> TotalResults]
    /\ answers = PageStatuses
    /\ Idle({FirstLine})

SpecPaginate == InitPaginate /\ [][Next]_vars

----------------------------------------------------------------------------
(* Specification of parse: one Response of candidates against one Entry *)

JaneOBrien == <<"J", "a", "n", "e", " ", "O", "'", "B", "r", "i", "e", "n">>

DrJaneOBrien == <<"D", "r", ".", " ">> \o JaneOBrien

JaneMarieOBrien ==
    <<"J", "a", "n", "e", " ", "M", "a", "r", "i", "e", " ",
      "O", "'", "B", "r", "i", "e", "n">>

janeobrien == <<"j", "a", "n", "e", " ", "o", "b", "r", "i", "e", "n">>

MrsJaneOBrien == <<"M", "R", "S", " ", "J", "A", "N", "E", " ",
                   "O", "'", "B", "R", "I", "E", "N">>

DrakeOBrien == <<"D", "r", "a", "k", "e", " ", "O", "'", "B", "r", "i", "e", "n">>

SirJohnSmith == <<"S", "i", "r", " ">> \o JohnSmith

MrJohnSmith == <<"M", "r", ".", " ">> \o JohnSmith

MsJohnSmith == <<"M", "s", ".">> \o JohnSmith

Iso19800517 == <<"1", "9", "8", "0", "-", "0", "5", "-", "1", "7">>

\* the same date in the basic format of ISO 8601, without separators
Basic19800517 == <<"1", "9", "8", "0", "0", "5", "1", "7">>

Born(year, month, day) ==
    [t |-> "object", year |-> year, month |-> month, day |-> day]

Officer(title, id, born, address) ==
    [title |-> title, links |-> [self |-> Str(OfficersPath \o id)],
     date_of_birth |-> born, address_snippet |-> address]

Candidates ==
    {Officer(Str(JohnSmith), <<"a", "b", "c", "1", "2", "3">>,
             Born(Num(1980), Num(5), Undefined), Str(Road)),
     Officer(Str(DrJaneOBrien), <<"d", "1">>, Undefined, Undefined),
     Officer(Str(JaneMarieOBrien), <<"d", "2">>,
             Born(Num(1980), Num(5), Num(17)), Str(Road)),
     Officer(Undefined, <<"d", "3">>,
             Born(Num(1980), Num(12), Undefined), Str(Road)),
     Officer(Str(janeobrien), <<"d", "4">>,
             Born(Num(1980), Undefined, Undefined), Str(Road)),
     Officer(Str(MrsJaneOBrien), <<"d", "5">>,
             Born(Num(1981), Num(5), Undefined), Undefined),
     Officer(Str(DrakeOBrien), <<"d", "6">>,
             Born(Undefined, Num(5), Undefined), Str(Road)),
     Officer(Str(SirJohnSmith), <<"d", "7", "/", "a", "p", "p">>,
             Undefined, Str(Road)),
     Officer(Str(MsJohnSmith), <<"d", "8">>,
             Born(Num(1980), Num(5), Num(17)), Undefined)}

EntryNames == {JaneOBrien, janeobrien, JohnSmith, MrJohnSmith}

EntryBirths == {<<>>, Iso19800517, Basic19800517}

ParseEntryData ==
    {(IndividualNameColumn :> n) : n \in EntryNames}
    \cup {(IndividualNameColumn :> n) @@ (DateOfBirthColumn :> b) :
             n \in EntryNames, b \in EntryBirths}

Filters ==
    {[apiKey |-> <<"A">>,
      individualNameField |-> Lit(IndividualNameColumn),
      dateOfBirthField |-> d, preciseMatch |-> p, nonMiddleNameMatch |-> m] :
        d \in {Undefined, Lit(DateOfBirthColumn)}, p \in BOOLEAN, m \in BOOLEAN}

ItemLists == UNION {[1..n -> Candidates] : n \in 0..MaxItems}

\* run's last step alone: the flatMap of parse over the paginated Responses
Parse(line) ==
    /\ pc[line] = "Paginated"
    /\ finish(line, <<dataLocatedRequested[line]>>)
    /\ UNCHANGED <<parameters, entries, remote, answers, next, handed, alerts,
                   sent, queries, inflight, queue, dataLocatedRequested,
                   pageResponses, received, overtaken>>

InitParse ==
    /\ parameters \in Filters
    /\ entries \in {[l \in {FirstLine} |-> [line |-> l, data |-> d]] :
                      d \in ParseEntryData}
    /\ remote = [l \in {FirstLine} |-> 0]
    /\ answers = {}
    /\ next = 0
    /\ handed = <<>>
    /\ alerts = EmptyBag
    /\ pc = [l \in {FirstLine} |-> "Paginated"]
    /\ sent = [l \in {FirstLine} |-> <<>>]
    /\ queries = <<>>
    /\ inflight = {}
    /\ queue = <<>>
    /\ dataLocatedRequested \in
          {[l \in {FirstLine} |->
              responseOf(locateQuery(Field(entries[l], Lit(IndividualNameColumn)), "A"),
                         200, [total_results |-> Len(items), items |-> items])] :
             items \in ItemLists}
    /\ pageResponses = [l \in {FirstLine} |-> <<>>]
    /\ dataLocatedPaginated = [l \in {FirstLine} |-> Undefined]
    /\ dataParsed = [l \in {FirstLine} |-> Undefined]
    /\ failure = [l \in {FirstLine} |-> <<>>]
    /\ received = [l \in {FirstLine} |-> {}]
    /\ overtaken = [l \in {FirstLine} |-> FALSE]
    /\ steps = [l \in {FirstLine} |-> <<"locate", "request", "paginate">>]

NextParse == \E line \in DOMAIN entries : Parse(line)

SpecParse == InitParse /\ [][NextParse]_vars

----------------------------------------------------------------------------
(* The strict variant: individual names to company officer names *)
(* (locate, http, parse, run of the OpenCorporates reconciler).   *)

\* events of a Highland stream
Err(e) == [kind |-> "error", error |-> e]

Val(x) == [kind |-> "value", value |-> x]

\* locate(entry): the location, or the Error it throws
locateStrict(entry) ==
    IF ~Truthy(entry.individualName)
    THEN [threw |-> TRUE, error |-> <<Lit("No individual name given!")>>]
    ELSE LET jurisdiction == IF Truthy(parameters.jurisdiction)
                             THEN parameters.jurisdiction
                             ELSE entry.individualJurisdiction
         IN  [threw |-> FALSE,
              value |->
                [uri |-> <<Lit("https://api.opencorporates.com/"), Lit("v0.4.5"),
                           Lit("/officers/search"),
                           Lit("?q="), Str(trim(entry.individualName.v))>>
                         \o (IF Truthy(jurisdiction)
                             THEN <<Lit("&jurisdiction_code="),
                                    Str(trim(jurisdiction.v))>>
                             ELSE <<>>)
                         \o (IF Truthy(parameters.apiToken)
                             THEN <<Lit("&api_token="), parameters.apiToken>>
                             ELSE <<>>),
                 query |-> [individualName |-> entry.individualName,
                            individualJurisdiction |-> jurisdiction]]]

failureSource(location) ==
    <<location.query.individualName>>
       \o (IF Truthy(location.query.individualJurisdiction)
           THEN <<Lit(" ("), location.query.individualJurisdiction, Lit(")")>>
           ELSE <<>>)

\* an answer of 0 stands for a transport error, reported by Request as error
TransportError == <<Lit("socket hang up")>>

\* the failure http passes to its callback, <<>> for null
httpFailure(location, answer) ==
    IF answer = 0 THEN TransportError
    ELSE IF answer = 401
    THEN <<Lit("API token is invalid: "), parameters.apiToken>>
    ELSE IF answer >= 400
    THEN <<Lit("Error "), Num(answer), Lit(": ")>> \o failureSource(location)
    ELSE <<>>

\* http(location): the stream wrapCallback makes of callback(failure, response)
httpStrict(location, answer, response) ==
    IF httpFailure(location, answer) # <<>>
    THEN <<Err(httpFailure(location, answer))>>
    ELSE <<Val(response)>>

\* the officers of a body: count of them, told apart by company number
officersOf(count, name) ==
    [k \in 1..count |->
        [officer |-> [name |-> name,
                      position |-> Lit("director"),
                      company |-> [name |-> Lit("ACME LTD"),
                                   company_number |-> Num(k)]]]]

\* the response Request hands over: it carries the request it answers
responseStrict(location, answer, officers) ==
    [statusCode |-> answer,
     body |-> [results |-> [officers |-> officers]],
     request |-> location]

\* a parse that returns no rows for a body without officers
parseStrictEmpty(response) ==
    LET body == response.body
    IN  [threw |-> FALSE,
         value |-> [k \in 1..Len(body.results.officers) |->
                      LET officer == body.results.officers[k]
                      IN  [officerName |-> officer.officer.name,
                           officerPosition |-> officer.officer.position,
                           companyName |-> officer.officer.company.name,
                           companyNumber |-> officer.officer.company.company_number]]]

\* parse(response): the rows, or the Error it throws
parseStrict(response) ==
    LET body == response.body
    IN  IF Len(body.results.officers) = 0
        THEN LET jurisdiction ==
                     IF Truthy(response.request.query.individualJurisdiction)
                     THEN <<Lit(" ("), response.request.query.individualJurisdiction,
                            Lit(")")>>
                     ELSE <<>>
             IN  [threw |-> TRUE,
                  error |-> <<Lit("Individual not found: "),
                              response.request.query.individualName>>
                            \o jurisdiction]
        ELSE [threw |-> FALSE,
              value |-> [k \in 1..Len(body.results.officers) |->
                           LET officer == body.results.officers[k]
                           IN  [officerName |-> officer.officer.name,
                                officerPosition |-> officer.officer.position,
                                companyName |-> officer.officer.company.name,
                                companyNumber |->
                                    officer.officer.company.company_number]]]

\* .flatMap(parse): an error passes, a thrown Error becomes an error of the
\* stream, and the array parse returns is emitted row by row
RECURSIVE flatMapStrict(_)
flatMapStrict(stream) ==
    IF stream = <<>> THEN <<>>
    ELSE LET event == Head(stream)
             parsed == parseStrict(event.value)
         IN  (IF event.kind = "error" THEN <<event>>
              ELSE IF parsed.threw THEN <<Err(parsed.error)>>
              ELSE [k \in 1..Len(parsed.value) |-> Val(parsed.value[k])])
             \o flatMapStrict(Tail(stream))

\* .collect(): errors pass as they come, then the values as one array
collect(stream) ==
    LET values == SelectSeq(stream, LAMBDA event : event.kind = "value")
    IN  SelectSeq(stream, LAMBDA event : event.kind = "error")
           \o <<Val(Arr([k \in 1..Len(values) |-> values[k].value]))>>

\* .errors(reject).each(resolve): the first call settles the Promise
settle(stream) ==
    IF Head(stream).kind = "error"
    THEN [state |-> "rejected", error |-> Head(stream).error]
    ELSE [state |-> "resolved", value |-> Head(stream).value]

\* the Promise of run(input) settles
settled(line, result) ==
    IF result.state = "rejected"
    THEN /\ pc' = [pc EXCEPT ![line] = "Failed"]
         /\ failure' = [failure EXCEPT ![line] = result.error]
         /\ UNCHANGED dataParsed
    ELSE /\ pc' = [pc EXCEPT ![line] = "Done"]
         /\ dataParsed' = [dataParsed EXCEPT ![line] = result.value]
         /\ UNCHANGED failure

\* run(input) up to the request: locate, then http
RunStrict(line) ==
    /\ pc[line] = "Start"
    /\ LET located == locateStrict(entries[line])
       IN  IF located.threw
           THEN /\ settled(line, settle(collect(<<Err(located.error)>>)))
                /\ steps' = [steps EXCEPT ![line] = Append(@, "locate")]
                /\ UNCHANGED <<sent, queries, inflight>>
           ELSE /\ sent' = [sent EXCEPT ![line] = Append(@, Num(1))]
                /\ queries' = (<<line, 1>> :> located.value) @@ queries
                /\ inflight' = inflight \cup {<<line, 1>>}
                /\ pc' = [pc EXCEPT ![line] = "Requested"]
                /\ steps' = [steps EXCEPT ![line] = @ \o <<"locate", "http">>]
                /\ UNCHANGED <<dataParsed, failure>>
    /\ UNCHANGED <<parameters, entries, remote, answers, next, handed, alerts,
                   queue, dataLocatedRequested, pageResponses,
                   dataLocatedPaginated, received, overtaken>>

\* Request calls back: http emits, parse maps, collect gathers, run settles
RespondStrict(line, answer) ==
    /\ <<line, 1>> \in inflight
    /\ LET location == queries[<<line, 1>>]
           response == responseStrict(location, answer,
                           IF answer = 200
                           THEN officersOf(remote[line], location.query.individualName)
                           ELSE <<>>)
           parsed == flatMapStrict(httpStrict(location, answer, response))
       IN  /\ settled(line, settle(collect(parsed)))
           /\ steps' = [steps EXCEPT ![line] =
                  IF answer = 200 THEN Append(@, "parse") ELSE @]
    /\ inflight' = inflight \ {<<line, 1>>}
    /\ received' = [received EXCEPT ![line] = @ \cup {<<1, answer>>}]
    /\ UNCHANGED <<parameters, entries, remote, answers, next, handed, alerts,
                   sent, queries, queue, dataLocatedRequested, pageResponses,
                   dataLocatedPaginated, overtaken>>

StrictAnswers == {0, 200, 401, 404}

GB == <<"g", "b">>

US == <<"u", "s">>

Token == <<"t", "0", "k">>

StrictParameters ==
    {[apiToken |-> token, jurisdiction |-> jurisdiction] :
        token \in {Undefined, Str(Token)}, jurisdiction \in {Undefined, Str(GB)}}

StrictEntries ==
    {[individualName |-> name, individualJurisdiction |-> jurisdiction] :
        name \in {Undefined, Str(<<>>), Str(JohnSmith), Str(<<" ">> \o JaneOBrien)},
        jurisdiction \in {Undefined, Str(<<>>), Str(US)}}

InitStrict ==
    /\ parameters \in StrictParameters
    /\ entries \in [{FirstLine} -> StrictEntries]
    /\ remote \in [{FirstLine} -> 0..MaxOfficers]
    /\ answers = StrictAnswers
    /\ Idle({FirstLine})

NextStrict ==
    \/ \E line \in DOMAIN entries : RunStrict(line)
    \/ \E line \in DOMAIN entries, answer \in answers : RespondStrict(line, answer)

SpecStrict == InitStrict /\ [][NextStrict]_vars

----------------------------------------------------------------------------
(* Properties *)

Items(l) == dataLocatedRequested[l].data.items

Rows(l) == dataParsed[l].v

FollowUps(l) == SubSeq(sent[l], 2, Len(sent[l]))

Got(l, status) == \E p \in 1..PageCap : <<p, status>> \in received[l]

NameOf(l) == Field(entries[l], parameters.individualNameField)

\* C1: the k-th key handed out by the rotator is the key at index k mod N of
\* the credential list, so every N consecutive calls use every key once
C1_RoundRobin ==
    /\ \A k \in 1..Len(handed) :
          handed[k] = parameters.apiKey[((k - 1) % Len(parameters.apiKey)) + 1]
    /\ \A k \in 1..(Len(handed) - Len(parameters.apiKey) + 1) :
          {handed[i] : i \in k..(k + Len(parameters.apiKey) - 1)}
             = {parameters.apiKey[i] : i \in 1..Len(parameters.apiKey)}

C1_Witness ==
    /\ parameters.apiKey = <<"A", "B", "C">>
    /\ Len(handed) >= 7
    /\ SubSeq(handed, 1, 7) = <<"A", "B", "C", "A", "B", "C", "A">>

ClaimCeil(total) == (total \div 100) + (IF total % 100 = 0 THEN 0 ELSE 1)

ClaimLastPage(total) == IF ClaimCeil(total) < 10 THEN ClaimCeil(total) ELSE 10

\* C2: for a first Response with total T the follow-up requests are exactly
\* the pages 2..min(ceil(T/100), 10), each once and in order, none when
\* T <= 100 (the result is then the original Response alone), never above 10
C2_FollowUpPages ==
    \A l \in DOMAIN entries :
        Truthy(dataLocatedRequested[l]) =>
            LET last == ClaimLastPage(dataLocatedRequested[l].data.total_results)
            IN  /\ FollowUps(l) =
                      [i \in 1..(IF last >= 2 THEN last - 1 ELSE 0) |-> Num(i + 1)]
                /\ \A i \in 1..Len(FollowUps(l)) : FollowUps(l)[i].v <= 10
                /\ dataLocatedRequested[l].data.total_results <= 100 =>
                      /\ FollowUps(l) = <<>>
                      /\ dataLocatedPaginated[l] = Arr(<<dataLocatedRequested[l]>>)

C2_Witness ==
    \E l \in DOMAIN entries :
        /\ Truthy(dataLocatedRequested[l])
        /\ dataLocatedRequested[l].data.total_results = 950
        /\ FollowUps(l) = [i \in 1..9 |-> Num(i + 1)]
        /\ pc[l] = "Done"

\* C3: in the sequence paginate returns the first-page Response is the head
\* and the Response at position i is the one of page i, whatever the order
\* in which the follow-up requests completed
C3_PageOrder ==
    \A l \in DOMAIN entries :
        dataLocatedPaginated[l].t = "array" =>
            LET pages == dataLocatedPaginated[l].v
            IN  /\ pages[1] = dataLocatedRequested[l]
                /\ Truthy(pages[1])
                /\ pages[1].passthrough.page = 1
                /\ \A i \in 2..Len(pages) :
                      Truthy(pages[i]) => pages[i].passthrough.page = i

C3_Witness ==
    \E l \in DOMAIN entries :
        /\ overtaken[l]
        /\ dataLocatedPaginated[l].t = "array"
        /\ Len(dataLocatedPaginated[l].v) = 3
        /\ \A i \in 1..3 : Truthy(dataLocatedPaginated[l].v[i])

RateLimitError == <<Lit("The rate limit has been reached")>>

InvalidKeyError(key) == <<Lit("API key "), Lit(key), Lit(" is invalid")>>

GenericStatus(status) == status >= 400 /\ status \notin {401, 429}

SampleStatuses == {400, 402, 403, 404, 416, 428, 430, 500, 503, 599}

\* the original statement of C4: a 429 on any call of an entry makes run
\* fail with the rate-limit error
C4_Original ==
    \A l \in DOMAIN entries :
        Got(l, 429) => pc[l] = "Failed" /\ failure[l] = RateLimitError

\* C4: a 429 on any call of an entry makes run fail, never with output rows,
\* with the rate-limit error or, when a call of the same entry also received
\* a 401, with an invalid-credential error; the rate-limit error differs from
\* every invalid-credential error and from every diagnostic of a generic
\* status >= 400, and a 429 is never classified as the generic case
C4_RateLimitFatal ==
    /\ \A l \in DOMAIN entries :
          Got(l, 429) =>
              /\ pc[l] = "Failed"
              /\ dataParsed[l] = Undefined
              /\ \/ failure[l] = RateLimitError
                 \/ /\ Got(l, 401)
                    /\ \E i \in 1..Len(parameters.apiKey) :
                          failure[l] = InvalidKeyError(parameters.apiKey[i])
              /\ ~Got(l, 401) => failure[l] = RateLimitError
    /\ \A id \in DOMAIN queries :
          LET on(status) ==
                  messages([response |-> [status |-> status], config |-> queries[id]])
          IN  /\ on(429) = [kind |-> "throw", message |-> RateLimitError]
              /\ on(401).kind = "throw"
              /\ Len(on(401).message) # Len(RateLimitError)
              /\ \A status \in SampleStatuses :
                    GenericStatus(status) =>
                        /\ on(status).kind = "return"
                        /\ Len(on(status).message) # Len(RateLimitError)
                        /\ Len(on(status).message) # Len(on(401).message)

C4_Witness ==
    \E l \in DOMAIN entries :
        /\ \E p \in 2..PageCap : <<p, 429>> \in received[l]
        /\ ~Got(l, 401)
        /\ pc[l] = "Failed"
        /\ failure[l] = RateLimitError

LineAlert(l) ==
    [message |-> <<Lit("No individual name found on line "), Num(l)>>,
     importance |-> "error"]

\* C5: an Entry whose identifying field is missing or blank yields no rows,
\* does not fail, issues no request and raises exactly one diagnostic, of
\* importance 'error', citing its line number
C5_MissingField ==
    \A l \in DOMAIN entries :
        (~Truthy(NameOf(l)) /\ pc[l] # "Start") =>
            /\ pc[l] = "Done"
            /\ dataParsed[l] = Undefined
            /\ failure[l] = <<>>
            /\ \A id \in DOMAIN queries : id[1] # l
            /\ CopiesIn(LineAlert(l), alerts) = 1
            /\ \A a \in BagToSet(alerts) :
                  (Len(a.message) = 2 /\ a.message[2] = Num(l)) => a = LineAlert(l)

C5_Witness ==
    \E l \in DOMAIN entries :
        /\ ~Truthy(NameOf(l))
        /\ pc[l] = "Done"
        /\ CopiesIn(LineAlert(l), alerts) = 1
        /\ \E other \in DOMAIN entries : other # l /\ pc[other] = "Done"
                                         /\ dataParsed[other].t = "array"

\* C6: the number of requests in flight never exceeds twice the number of
\* configured credentials
C6_Ceiling == Cardinality(inflight) <= 2 * Len(parameters.apiKey)

C6_Witness ==
    /\ Cardinality(inflight) = 2 * Len(parameters.apiKey)
    /\ queue # <<>>
    /\ \E id \in inflight : id[2] >= 2

DobApplies(l) ==
    /\ parameters.dateOfBirthField = Lit(DateOfBirthColumn)
    /\ DateOfBirthColumn \in DOMAIN entries[l].data
    /\ entries[l].data[DateOfBirthColumn] # <<>>

Lacks(c) ==
    \/ c.date_of_birth.t # "object"
    \/ c.date_of_birth.year.t # "number"
    \/ c.date_of_birth.month.t # "number"

NamePasses(c, l) ==
    /\ byPreciseMatch(c, entries[l])
    /\ ~nonMiddleNameThrows(c, entries[l])
    /\ byNonMiddleNameMatch(c, entries[l])

\* the original statement of C7: with the date-of-birth filter applying, a
\* candidate lacking its birth year or month that passes the name filters
\* is in the output
C7_Original ==
    \A l \in DOMAIN entries :
        (pc[l] = "Done" /\ DobApplies(l)) =>
            \A k \in 1..Len(Items(l)) :
                (Lacks(Items(l)[k]) /\ NamePasses(Items(l)[k], l)) =>
                    \E j \in 1..Len(Rows(l)) : Rows(l)[j] = fields(Items(l)[k])

\* C7: with the date-of-birth filter applying, a candidate lacking its birth
\* year or month fails the filter and is never in the output
C7_MissingBirthFails ==
    \A l \in DOMAIN entries :
        (pc[l] = "Done" /\ DobApplies(l)) =>
            \A k \in 1..Len(Items(l)) :
                Lacks(Items(l)[k]) =>
                    \A j \in 1..Len(Rows(l)) : Rows(l)[j] # fields(Items(l)[k])

C7_Witness ==
    \E l \in DOMAIN entries :
        /\ pc[l] = "Done"
        /\ DobApplies(l)
        /\ Len(Items(l)) = 2
        /\ Lacks(Items(l)[1]) /\ NamePasses(Items(l)[1], l)
        /\ ~Lacks(Items(l)[2])
        /\ Rows(l) = <<fields(Items(l)[2])>>

\* C8: every row parse produces has exactly the keys of the declared schema
\* and no value of a row is undefined
C8_SchemaNull ==
    \A l \in DOMAIN entries :
        (pc[l] = "Done" /\ dataParsed[l].t = "array") =>
            \A j \in 1..Len(Rows(l)) :
                /\ DOMAIN Rows(l)[j] = {columns[i] : i \in 1..Len(columns)}
                /\ \A i \in 1..Len(columns) :
                      Rows(l)[j][columns[i]].t # "undefined"

\* C9: a status >= 400 other than 401 and 429 on the primary request is not
\* fatal: a diagnostic naming the subject and page 1 is raised, the Response
\* is absent, no follow-up request is issued and run completes without rows
C9_PrimaryClientError ==
    \A l \in DOMAIN entries : \A status \in Statuses :
        (<<1, status>> \in received[l] /\ GenericStatus(status)) =>
            /\ pc[l] = "Done"
            /\ dataParsed[l] = Undefined
            /\ failure[l] = <<>>
            /\ dataLocatedRequested[l] = Undefined
            /\ sent[l] = <<Num(1)>>
            /\ \A id \in DOMAIN queries : id[1] = l => id[2] = 1
            /\ \E a \in BagToSet(alerts) :
                  /\ Len(a.message) = 6
                  /\ a.message = <<Lit("Received code "), Num(status),
                                   Lit(" for individual "), NameOf(l),
                                   Lit(" on page "), Num(1)>>

C9_Witness ==
    \E l \in DOMAIN entries :
        /\ <<1, 404>> \in received[l]
        /\ pc[l] = "Done"
        /\ \E other \in DOMAIN entries :
              /\ other # l
              /\ <<1, 200>> \in received[other]
              /\ pc[other] = "Done"
              /\ dataParsed[other].t = "array"

HonorificWords ==
    {<<"m", "r">>, <<"m", "s">>, <<"m", "r", "s">>, <<"m", "i", "s", "s">>,
     <<"d", "r">>, <<"s", "i", "r">>}

\* the normalisation as C10 words it: lowercase, keep only a-z and space,
\* then drop one leading honorific word
ClaimNormal(name) ==
    LET lowered == toLowerCase(name)
        kept == SelectSeq(lowered, LAMBDA c : c \in LowerLetters \cup {" "})
        spaces == {i \in 1..Len(kept) : kept[i] = " "}
        first == CHOOSE i \in spaces : \A j \in spaces : i <= j
    IN  IF spaces # {} /\ SubSeq(kept, 1, first - 1) \in HonorificWords
        THEN SubSeq(kept, first + 1, Len(kept))
        ELSE kept

ClaimExact(c, l) ==
    /\ c.title.t = "string"
    /\ ClaimNormal(c.title.v) = ClaimNormal(NameOf(l).v)

\* C10: with preciseMatch enabled a candidate passes the exact-name filter
\* exactly when its display name and the Entry's name are equal after
\* normalisation; "Dr. Jane O'Brien" and "jane obrien" normalise alike
C10_ExactName ==
    /\ \A l \in DOMAIN entries :
          (pc[l] = "Done" /\ parameters.preciseMatch) =>
              /\ \A j \in 1..Len(Rows(l)) :
                    \E k \in 1..Len(Items(l)) :
                        /\ Rows(l)[j] = fields(Items(l)[k])
                        /\ ClaimExact(Items(l)[k], l)
              /\ ~parameters.nonMiddleNameMatch =>
                    LET kept == SelectSeq(Items(l),
                                    LAMBDA c : /\ byDateOfBirth(c, entries[l])
                                               /\ ClaimExact(c, l))
                    IN  Rows(l) = [k \in 1..Len(kept) |-> fields(kept[k])]
    /\ normalised(Str(DrJaneOBrien)) = normalised(Str(janeobrien))
    /\ normalised(Str(janeobrien)) = Str(janeobrien)

C10_Witness ==
    \E l \in DOMAIN entries :
        /\ pc[l] = "Done"
        /\ parameters.preciseMatch
        /\ NameOf(l) = Str(janeobrien)
        /\ \E j \in 1..Len(Rows(l)) : Rows(l)[j].officerName = Str(DrJaneOBrien)
        /\ Len(Rows(l)) < Len(Items(l))

\* the first token of a name: the characters before its first space
ClaimFirstToken(name) ==
    LET spaces == {i \in 1..Len(name) : name[i] = " "}
    IN  IF spaces = {} THEN name
        ELSE SubSeq(name, 1, (CHOOSE i \in spaces : \A j \in spaces : i <= j) - 1)

\* the last token of a name: the characters after its last space
ClaimLastToken(name) ==
    LET spaces == {i \in 1..Len(name) : name[i] = " "}
    IN  IF spaces = {} THEN name
        ELSE SubSeq(name, (CHOOSE i \in spaces : \A j \in spaces : i >= j) + 1,
                    Len(name))

ClaimFirstLast(c, l) ==
    /\ c.title.t = "string"
    /\ ClaimFirstToken(ClaimNormal(c.title.v))
          = ClaimFirstToken(ClaimNormal(NameOf(l).v))
    /\ ClaimLastToken(ClaimNormal(c.title.v))
          = ClaimLastToken(ClaimNormal(NameOf(l).v))

ClaimID(c) ==
    LET self == c.links.self.v
        rest == SubSeq(self, Len(OfficersPath) + 1, Len(self))
        slashes == {i \in 1..Len(rest) : rest[i] = "/"}
    IN  IF slashes = {} THEN rest
        ELSE SubSeq(rest, 1, (CHOOSE i \in slashes : \A j \in slashes : i <= j) - 1)

\* the birth components that exist, in year-month-day order
ClaimBirthParts(c) ==
    IF c.date_of_birth.t # "object" THEN <<>>
    ELSE SelectSeq(<<c.date_of_birth.year, c.date_of_birth.month,
                     c.date_of_birth.day>>, LAMBDA x : x.t = "number")

ClaimBirth(c) ==
    LET parts == ClaimBirthParts(c)
        text(i) == toString(parts[i].v)
    IN  CASE Len(parts) = 0 -> Null
          [] Len(parts) = 1 -> Str(text(1))
          [] Len(parts) = 2 -> Str(text(1) \o <<"-">> \o text(2))
          [] Len(parts) = 3 -> Str(text(1) \o <<"-">> \o text(2) \o <<"-">> \o text(3))

ClaimRow(c) ==
    [officerID |-> Str(ClaimID(c)),
     officerName |-> c.title,
     officerDateOfBirth |-> ClaimBirth(c),
     officerAddress |-> c.address_snippet]

JohnSmithCandidate ==
    Officer(Str(JohnSmith), <<"a", "b", "c", "1", "2", "3">>,
            Born(Num(1980), Num(5), Undefined), Str(Road))

JohnSmithRow ==
    [officerID |-> Str(<<"a", "b", "c", "1", "2", "3">>),
     officerName |-> Str(<<"J", "o", "h", "n", " ", "S", "m", "i", "t", "h">>),
     officerDateOfBirth |-> Str(<<"1", "9", "8", "0", "-", "5">>),
     officerAddress |-> Str(<<"1", " ", "R", "o", "a", "d">>)]

Survivors(l) ==
    SelectSeq(Items(l), LAMBDA c : /\ byDateOfBirth(c, entries[l])
                                   /\ byPreciseMatch(c, entries[l])
                                   /\ byNonMiddleNameMatch(c, entries[l]))

\* C12: each surviving candidate maps to one row with officerID the segment of
\* links.self after '/officers/', officerName the title, officerAddress the
\* address_snippet and officerDateOfBirth the existing birth components joined
\* with '-' in year-month-day order without padding, null when none exists; the
\* candidate John Smith, /officers/abc123, born 1980-5, 1 Road yields exactly
\* the row {abc123, John Smith, 1980-5, 1 Road}
C12_RowMapping ==
    \A l \in DOMAIN entries :
        (pc[l] = "Done" /\ Truthy(dataLocatedRequested[l])) =>
            /\ Rows(l) = [k \in 1..Len(Survivors(l)) |-> ClaimRow(Survivors(l)[k])]
            /\ Survivors(l) = <<JohnSmithCandidate>> => Rows(l) = <<JohnSmithRow>>

C12_Witness ==
    \E l \in DOMAIN entries :
        /\ pc[l] = "Done"
        /\ Items(l) = <<JohnSmithCandidate>>
        /\ Rows(l) = <<JohnSmithRow>>

\* the stages of run(input), in the order of its statements
Stages == <<"locate", "request", "paginate", "parse">>

MissingField(l) == ~Truthy(NameOf(l))

\* C13 as stated: the pipeline only moves forward through its stages, and for
\* an entry whose locate step yields no Query the Request Executor is never
\* invoked and no later stage runs
C13_Original ==
    \A l \in DOMAIN entries :
        /\ steps[l] = SubSeq(Stages, 1, Len(steps[l]))
        /\ (MissingField(l) /\ pc[l] # "Start") =>
              /\ pc[l] = "Done"
              /\ sent[l] = <<>>
              /\ steps[l] = <<"locate">>

\* C13: the pipeline only moves forward through locate, request, paginate and
\* parse; an entry whose locate step yields no Query is still handed to the
\* Request Executor and to paginate, both called once with no Query, but no
\* Query is built, no credential is taken, no outbound request is issued,
\* parse never runs and the entry ends Done with no output
C13_ForwardOnly ==
    \A l \in DOMAIN entries :
        /\ Len(steps[l]) <= Len(Stages)
        /\ steps[l] = SubSeq(Stages, 1, Len(steps[l]))
        /\ (pc[l] = "Start") <=> (steps[l] = <<>>)
        /\ pc[l] = "Requested" => steps[l] = <<"locate", "request">>
        /\ pc[l] \in {"Paginating", "Paginated"} =>
              steps[l] = <<"locate", "request", "paginate">>
        /\ (MissingField(l) /\ pc[l] # "Start") =>
              /\ pc[l] = "Done"
              /\ sent[l] = <<Undefined>>
              /\ steps[l] = <<"locate", "request", "paginate">>
              /\ \A id \in DOMAIN queries : id[1] # l
              /\ \A id \in inflight : id[1] # l
              /\ \A i \in 1..Len(queue) : queue[i][1] # l
              /\ received[l] = {}
              /\ dataLocatedRequested[l] = Undefined
              /\ dataLocatedPaginated[l] = Undefined
              /\ dataParsed[l] = Undefined
              /\ failure[l] = <<>>

C13_Witness ==
    \E l \in DOMAIN entries :
        /\ MissingField(l)
        /\ pc[l] = "Done"
        /\ sent[l] = <<Undefined>>
        /\ \E other \in DOMAIN entries :
              /\ steps[other] = Stages
              /\ pc[other] = "Done"
              /\ Len(handed) = Len(sent[other])

\* a follow-up page of l was answered with a non-fatal client error while no
\* call of l was answered with a fatal one
DroppedPage(l) ==
    /\ <<1, 200>> \in received[l]
    /\ \E answer \in received[l] : answer[1] >= 2 /\ answer[2] = 404
    /\ \A answer \in received[l] : answer[2] \in {200, 404}

\* C14: when a follow-up page fails with a non-fatal status while the first
\* page and the other pages succeed, run completes and its result holds exactly
\* the rows parsed from the successful pages in page order, with no undefined
\* or other non-row element in place of the failed page
C14_DroppedPage ==
    \A l \in DOMAIN entries :
        (DroppedPage(l) /\ pc[l] \in {"Done", "Failed"}) =>
            /\ pc[l] = "Done"
            /\ dataParsed[l].t = "array"
            /\ \A k \in 1..Len(dataParsed[l].v) :
                  /\ dataParsed[l].v[k] # Undefined
                  /\ DOMAIN dataParsed[l].v[k] = {columns[i] : i \in 1..Len(columns)}
            /\ LET pages == dataLocatedPaginated[l].v
                   good == SelectSeq(pages, Truthy)
               IN  dataParsed[l].v = flatMapParse(good, entries[l]).value

\* the number of times a credential has been handed out
HandedOut(key) == Cardinality({i \in 1..Len(handed) : handed[i] = key})

Credentials == {parameters.apiKey[i] : i \in 1..Len(parameters.apiKey)}

\* C15: under every interleaving of entries and fan-out requests no update of
\* the rotator's cursor is lost: the cursor stays within 0..N-1, after k calls
\* it equals k mod N, and the numbers of times any two credentials have been
\* handed out differ by at most 1
C15_AtomicCursor ==
    LET N == Len(parameters.apiKey)
    IN  /\ next \in 0..(N - 1)
        /\ next = Len(handed) % N
        /\ \A a, b \in Credentials : HandedOut(a) - HandedOut(b) <= 1
        /\ \A i \in 1..Len(handed) : handed[i] = parameters.apiKey[((i - 1) % N) + 1]

C15_Witness ==
    /\ Len(parameters.apiKey) = 3
    /\ Len(handed) = 4
    /\ next = 1
    /\ \E l, other \in DOMAIN entries :
          /\ l # other
          /\ pc[l] = "Paginating"
          /\ pc[other] = "Requested"
          /\ queries[<<l, 1>>].auth.username = "A"
          /\ queries[<<other, 1>>].auth.username = "B"
          /\ queries[<<l, 2>>].auth.username = "C"
          /\ queries[<<l, 3>>].auth.username = "A"

BirthValue(l) == entries[l].data[DateOfBirthColumn]

ClaimYear(c) == toString(c.date_of_birth.year.v)

ClaimMonth(c) ==
    IF c.date_of_birth.month.v < 10
    THEN <<"0">> \o toString(c.date_of_birth.month.v)
    ELSE toString(c.date_of_birth.month.v)

\* the characters of value at the 1-based positions from..to
Characters(value, from, to) ==
    [i \in 1..(to - from + 1) |-> IF from + i - 1 <= Len(value)
                                   THEN value[from + i - 1] ELSE ""]

\* the date-of-birth filter keeps, of the candidates with a year and a month,
\* exactly those whose year is the first 4 characters of the Entry's value and
\* whose padded month is its characters from..from+1
DobAgrees(from) ==
    \A l \in DOMAIN entries :
        (DobApplies(l) /\ Truthy(dataLocatedRequested[l])) =>
            /\ \A k \in 1..Len(Items(l)) :
                  ~Lacks(Items(l)[k]) =>
                      (byDateOfBirth(Items(l)[k], entries[l])
                          <=> /\ ClaimYear(Items(l)[k]) = Characters(BirthValue(l), 1, 4)
                              /\ ClaimMonth(Items(l)[k])
                                    = Characters(BirthValue(l), from, from + 1))
            /\ (pc[l] = "Done" /\ ~parameters.preciseMatch
                               /\ ~parameters.nonMiddleNameMatch) =>
                  LET kept == SelectSeq(Items(l),
                          LAMBDA c : /\ ~Lacks(c)
                                     /\ ClaimYear(c) = Characters(BirthValue(l), 1, 4)
                                     /\ ClaimMonth(c)
                                           = Characters(BirthValue(l), from, from + 1))
                  IN  Rows(l) = [k \in 1..Len(kept) |-> fields(kept[k])]

\* C16 as stated: when the date-of-birth filter applies and the candidate has
\* a birth year and month, it passes exactly when its year equals the first 4
\* characters of the Entry's value and its padded month the 2 characters
\* immediately following them
C16_Original == DobAgrees(5)

\* C16: when the date-of-birth filter applies and the candidate has a birth
\* year and month, it passes exactly when its year equals the first 4
\* characters of the Entry's value and its padded month equals the 6th and 7th
\* characters, the two after the separator that follows the year
C16_MonthAfterSeparator == DobAgrees(6)

C16_Witness ==
    \E l \in DOMAIN entries :
        /\ pc[l] = "Done"
        /\ DobApplies(l)
        /\ BirthValue(l) = Iso19800517
        /\ ~parameters.preciseMatch /\ ~parameters.nonMiddleNameMatch
        /\ Len(Items(l)) = 2
        /\ ~Lacks(Items(l)[1]) /\ ~Lacks(Items(l)[2])
        /\ Items(l)[1].date_of_birth.year = Num(1981)
        /\ Items(l)[2] = JohnSmithCandidate
        /\ Rows(l) = <<JohnSmithRow>>

\* the candidate passes every enabled filter; a filter that is not configured
\* passes every candidate
PassesAll(c, l) ==
    /\ byDateOfBirth(c, entries[l])
    /\ byPreciseMatch(c, entries[l])
    /\ parameters.nonMiddleNameMatch => ClaimFirstLast(c, l)

Unfiltered(l) ==
    /\ ~DobApplies(l)
    /\ ~parameters.preciseMatch
    /\ ~parameters.nonMiddleNameMatch

\* C17: for every Response and Entry parse outputs exactly the candidates that
\* pass all enabled filters, one row each, in the order of the Response; with
\* no filter configured every candidate is output, and a Response with no
\* surviving candidate gives an empty result without failing
C17_AllFilters ==
    \A l \in DOMAIN entries :
        (Truthy(dataLocatedRequested[l]) /\ pc[l] \in {"Done", "Failed"}) =>
            LET kept == SelectSeq(Items(l), LAMBDA c : PassesAll(c, l))
            IN  /\ pc[l] = "Done"
                /\ dataParsed[l].t = "array"
                /\ Rows(l) = [k \in 1..Len(kept) |-> fields(kept[k])]
                /\ Unfiltered(l) => Len(Rows(l)) = Len(Items(l))

\* the run of l failed naming the key of one of its requests answered 401
NamesOffendingKey(l) ==
    \E answer \in received[l] :
        /\ answer[2] = 401
        /\ failure[l] = InvalidKeyError(queries[<<l, answer[1]>>].auth.username)

\* C18 as stated: a 401 on any call makes run fail with an invalid-credential
\* error naming exactly the credential assigned to the failing request's Query
C18_Original ==
    \A l \in DOMAIN entries :
        Got(l, 401) => pc[l] = "Failed" /\ NamesOffendingKey(l)

\* C18: a 401 on any call makes run fail, never with output rows; the error
\* is the invalid-credential error naming exactly the credential assigned to
\* the Query of a request of that entry answered 401, follow-up pages of a
\* fan-out included, unless a call of the same entry also received a 429, in
\* which case it may be the rate-limit error instead
C18_InvalidKey ==
    /\ \A l \in DOMAIN entries :
          Got(l, 401) =>
              /\ pc[l] = "Failed"
              /\ dataParsed[l] = Undefined
              /\ NamesOffendingKey(l) \/ (Got(l, 429) /\ failure[l] = RateLimitError)
              /\ ~Got(l, 429) => NamesOffendingKey(l)
    /\ \A id \in DOMAIN queries :
          messages([response |-> [status |-> 401], config |-> queries[id]])
              = [kind |-> "throw",
                 message |-> InvalidKeyError(queries[id].auth.username)]

C18_Witness ==
    \E l \in DOMAIN entries :
        /\ pc[l] = "Failed"
        /\ received[l] = {<<1, 200>>, <<3, 401>>}
        /\ <<l, 2>> \in inflight
        /\ queries[<<l, 3>>].auth.username # queries[<<l, 1>>].auth.username
        /\ queries[<<l, 3>>].auth.username # queries[<<l, 2>>].auth.username
        /\ failure[l] = InvalidKeyError(queries[<<l, 3>>].auth.username)

\* the jurisdiction of the search: the configured one, else the Entry's
ClaimJurisdiction(l) ==
    IF parameters.jurisdiction.t = "string" /\ parameters.jurisdiction.v # <<>>
    THEN parameters.jurisdiction
    ELSE entries[l].individualJurisdiction

JurisdictionPresent(l) ==
    ClaimJurisdiction(l).t = "string" /\ ClaimJurisdiction(l).v # <<>>

NotFoundError(l) ==
    IF JurisdictionPresent(l)
    THEN <<Lit("Individual not found: "), entries[l].individualName,
           Lit(" ("), ClaimJurisdiction(l), Lit(")")>>
    ELSE <<Lit("Individual not found: "), entries[l].individualName>>

NameGiven(l) ==
    entries[l].individualName.t = "string" /\ entries[l].individualName.v # <<>>

ClaimOfficerRow(l, k) ==
    [officerName |-> entries[l].individualName,
     officerPosition |-> Lit("director"),
     companyName |-> Lit("ACME LTD"),
     companyNumber |-> Num(k)]

\* C19: in the strict variant a response with zero officers always makes run
\* fail with the 'Individual not found' error naming the individual, and the
\* jurisdiction when present, and never resolve with an empty result; a
\* response with at least one officer resolves with exactly one row per
\* officer in response order; an entry without an individual name fails
\* before any request is issued
C19_ThrowPolicy ==
    \A l \in DOMAIN entries :
        /\ (~NameGiven(l) /\ pc[l] # "Start") =>
              /\ pc[l] = "Failed"
              /\ failure[l] = <<Lit("No individual name given!")>>
              /\ sent[l] = <<>>
              /\ queries = <<>>
              /\ inflight = {}
              /\ dataParsed[l] = Undefined
        /\ (<<1, 200>> \in received[l] /\ remote[l] = 0) =>
              /\ pc[l] = "Failed"
              /\ failure[l] = NotFoundError(l)
              /\ dataParsed[l] = Undefined
        /\ (<<1, 200>> \in received[l] /\ remote[l] >= 1) =>
              /\ pc[l] = "Done"
              /\ failure[l] = <<>>
              /\ dataParsed[l] = Arr([k \in 1..remote[l] |-> ClaimOfficerRow(l, k)])
        /\ pc[l] = "Done" => dataParsed[l].t = "array" /\ dataParsed[l].v # <<>>

C19_Witness ==
    \E l \in DOMAIN entries :
        /\ <<1, 200>> \in received[l]
        /\ remote[l] = 0
        /\ JurisdictionPresent(l)
        /\ pc[l] = "Failed"
        /\ failure[l] = <<Lit("Individual not found: "), Str(JohnSmith),
                          Lit(" ("), Str(GB), Lit(")")>>

\* the Queries run has built for l so far: one in locate for a valid entry and
\* one per follow-up page once the first Response is there
QueriesBuilt(l) ==
    LET total == dataLocatedRequested[l].data.total_results
        pages == (total + 99) \div 100
    IN  (IF ~MissingField(l) /\ pc[l] # "Start" THEN 1 ELSE 0)
        + (IF Truthy(dataLocatedRequested[l]) /\ total > 100
           THEN (IF pages > 10 THEN 10 ELSE pages) - 1 ELSE 0)

RECURSIVE SumBuilt(_)
SumBuilt(lines) ==
    IF lines = {} THEN 0
    ELSE LET l == CHOOSE x \in lines : TRUE
         IN  QueriesBuilt(l) + SumBuilt(lines \ {l})

\* C20: the number of credentials handed out always equals the number of
\* Queries built, one per valid entry in locate and one per follow-up page in
\* paginate, and the cursor is that number mod N; locating an entry with a
\* missing field, parsing, or an absent Response does not advance it
C20_OncePerQuery ==
    /\ Len(handed) = Cardinality(DOMAIN queries)
    /\ Len(handed) = SumBuilt(DOMAIN entries)
    /\ next = SumBuilt(DOMAIN entries) % Len(parameters.apiKey)
    /\ \A l \in DOMAIN entries :
          /\ Cardinality({id \in DOMAIN queries : id[1] = l}) = QueriesBuilt(l)
          /\ \A id \in DOMAIN queries :
                id[1] = l => \E i \in 1..Len(handed) :
                                handed[i] = queries[id].auth.username

C20_Witness ==
    /\ Len(parameters.apiKey) = 3
    /\ handed = <<"A">>
    /\ next = 1
    /\ \E l, other \in DOMAIN entries :
          /\ MissingField(l) /\ pc[l] = "Done"
          /\ ~MissingField(other) /\ pc[other] = "Done"
          /\ received[other] = {<<1, 404>>}
          /\ dataParsed[other] = Undefined

====
